---- MODULE Spec2Model ----
(***************************************************************************)
(* Model of the Order Invalidator (src/order-invalidator.js): the click    *)
(* handlers, the credential exchange, the batch loop with its suspension   *)
(* points (each await is one step of a run), and the chunkArray helper.    *)
(***************************************************************************)
EXTENDS Integers, Sequences, FiniteSets, TLC

\* ------------------------------------------------------------------ bounds
\* Number of runs the user may start in one behaviour.
MaxRuns == 2
\* Number of lines the user may type into the Order ID textarea.
MaxLines == 3
\* Chunk size of the batch loop. The source sets 5000 (order-invalidator.js
\* line 29); the model scales it down so that a run has several batches.
BATCH_SIZE == 2
\* chunkArray explored on its own: array length, and the cap on the number of
\* chunks pushed (the loop of a non-positive size never ends by itself).
ChunkMaxLen == 4
ChunkMaxSize == 3
ChunkMaxChunks == 5
\* Cap on the token requests of a run, for the variant of generateUToken that
\* asks again after a failure (the source asks once).
MaxTokenRequests == 2
\* updateProgressUI explored on its own: the largest total of Order IDs.
EtaMaxTotal == 4
\* Number of runs the user starts in the behaviours checked for termination.
LiveMaxRuns == 1

\* ------------------------------------------------------------- input data
\* Lines the user can type; " a" carries surrounding whitespace.
Lines == {"", " a", "b"}
\* The Order ID the user types on line k, when the line is not left blank.
IdLine(k) == IF k % 2 = 1 THEN " a" ELSE "b"
\* Values the user can type into a key field.
KeyTexts == {"", " k"}
\* HTTP statuses a response can carry, and the transport failure of fetch.
Statuses == {200, 201, 204, 500}
NetworkError == "NetworkError"
\* Bodies of the token response: what response.json() yields. An absent field
\* and an empty one are the same to the code (both falsy), written "".
TokenBodies ==
    [parses : {TRUE}, access_token : {"", "tok"},
     error_description : {"", "invalid_client"}]
    \cup {[parses |-> FALSE, access_token |-> "", error_description |-> ""]}
\* Bodies of a failed batch response: not JSON, the JSON value null, or an
\* object with its error and status.message fields ("" when absent).
ErrBodies ==
    [kind : {"object"}, error : {"", "rate limited"},
     statusMessage : {"", "bad request"}]
    \cup [kind : {"unparseable", "null"}, error : {""}, statusMessage : {""}]

\* Values of Date.now() - startTime, in milliseconds.
ElapsedTimes == {0, 400, 1500, 61000}

SeqsUpTo(S, n) == UNION {[1..k -> S] : k \in 0..n}

\* --------------------------------------------------------- pure functions
\* String.prototype.trim on the strings of the model.
Trim(s) ==
    CASE s = " a" -> "a"
      [] s = " k" -> "k"
      [] s = " " -> ""
      [] OTHER -> s

\* orderIdsInput.value.trim().split('\n').map(trim).filter(id => id !== '')
ParseOrderIds(text) ==
    SelectSeq([k \in 1..Len(text) |-> Trim(text[k])], LAMBDA id : id # "")

Min(a, b) == IF a < b THEN a ELSE b
Max(a, b) == IF a > b THEN a ELSE b

\* Array.prototype.slice(start, end) with 0-based indices; a negative index
\* counts from the end of the array.
Slice(array, start, end) ==
    LET len == Len(array)
        from == IF start < 0 THEN Max(len + start, 0) ELSE Min(start, len)
        to == IF end < 0 THEN Max(len + end, 0) ELSE Min(end, len)
    IN  IF to <= from THEN << >>
        ELSE [k \in 1..(to - from) |-> array[from + k]]

\* chunkArray with the slice written slice(i, size): the end index is the
\* size, not i + size.
ChunkPush_EndIsSize(chunks, array, i, size) ==
    Append(chunks, Slice(array, i, size))

\* One iteration of chunkArray's loop: chunks.push(array.slice(i, i + size)).
ChunkPush(chunks, array, i, size) == Append(chunks, Slice(array, i, i + size))

\* chunkArray with a loop that also stops once i has left the array on the
\* left.
ChunkCond_InRange(array, i) == 0 <= i /\ i < Len(array)

\* The loop condition of chunkArray.
ChunkCond(array, i) == i < Len(array)

RECURSIVE ChunkLoop(_, _, _, _)
ChunkLoop(array, size, i, chunks) ==
    IF ChunkCond(array, i)
    THEN ChunkLoop(array, size, i + size, ChunkPush(chunks, array, i, size))
    ELSE chunks

\* chunkArray(array, size) for a positive size (the loop ends).
chunkArray(array, size) == ChunkLoop(array, size, 0, << >>)

\* response.ok of the token response.
ResponseOk(status) == status >= 200 /\ status <= 299

\* response.statusText
StatusText(status) ==
    CASE status = 200 -> "OK"
      [] status = 201 -> "Created"
      [] status = 204 -> "No Content"
      [] status = 500 -> "Internal Server Error"
      [] OTHER -> ""

\* `HTTP ${response.status}`
HttpStatusMessage(status) ==
    CASE status = 201 -> "HTTP 201"
      [] status = 500 -> "HTTP 500"
      [] OTHER -> "HTTP"

\* a || b on strings
OrElse(a, b) == IF a # "" THEN a ELSE b

\* generateUToken without the test of the token: a response without one
\* yields an empty token.
generateUToken_NoTokenTest(status, body) ==
    IF ~body.parses \/ ~ResponseOk(status)
    THEN [thrown |-> TRUE, message |-> <<"Token generation failed", "">>,
          uToken |-> ""]
    ELSE [thrown |-> FALSE, message |-> <<"", "">>, uToken |-> body.access_token]

\* generateUToken from the parsed body on: the error it throws, or the token.
generateUToken(status, body) ==
    IF ~body.parses
    THEN [thrown |-> TRUE, message |-> <<"SyntaxError", "">>, uToken |-> ""]
    ELSE IF ~ResponseOk(status)
    THEN [thrown |-> TRUE,
          message |-> <<"Token generation failed",
                        OrElse(body.error_description, StatusText(status))>>,
          uToken |-> ""]
    ELSE IF body.access_token = ""
    THEN [thrown |-> TRUE,
          message |-> <<"Token not found in authentication response.", "">>,
          uToken |-> ""]
    ELSE [thrown |-> FALSE, message |-> <<"", "">>, uToken |-> body.access_token]

\* The fallback with the two fields of the body taken in the other order.
BatchErrorMessage_StatusMessageFirst(status, body) ==
    IF body.kind = "null"
    THEN <<"Network error", "TypeError">>
    ELSE <<"FAILED",
           OrElse(body.statusMessage,
                  OrElse(body.error, HttpStatusMessage(status)))>>

\* The line logged for a batch whose response has a failure status.
BatchErrorMessage(status, body) ==
    IF body.kind = "null"
    THEN <<"Network error", "TypeError">>
    ELSE <<"FAILED",
           OrElse(body.error,
                  OrElse(body.statusMessage, HttpStatusMessage(status)))>>

\* JavaScript numbers as far as the progress estimate needs them: a ratio of
\* integers with a positive denominator, Infinity, or NaN. Rounding errors of
\* the double arithmetic are not modelled.
Finite(n, d) == [kind |-> "finite", num |-> n, den |-> d]
Infinity == [kind |-> "Infinity", num |-> 0, den |-> 1]
NaN == [kind |-> "NaN", num |-> 0, den |-> 1]

\* a / b for integers a >= 0 and b >= 0
FloatDiv(a, b) ==
    IF b # 0 THEN Finite(a, b) ELSE IF a = 0 THEN NaN ELSE Infinity

\* k * x for an integer k >= 0
FloatTimes(k, x) ==
    CASE x.kind = "finite" -> Finite(k * x.num, x.den)
      [] x.kind = "Infinity" -> IF k = 0 THEN NaN ELSE Infinity
      [] OTHER -> NaN

\* Math.round(n / d) for d > 0: the nearest integer, a half rounded up
MathRound(n, d) == (2 * n + d) \div (2 * d)

\* formatTime(ms): "N/A", or the text `${minutes}m ${seconds}s` with the
\* minutes left out when they are 0, given as <<shape, minutes, seconds>>.
formatTime(ms) ==
    IF (ms.kind = "finite" /\ ms.num < 0) \/ ms.kind # "finite"
    THEN <<"N/A", 0, 0>>
    ELSE LET seconds == MathRound(ms.num, 1000 * ms.den)
             minutes == seconds \div 60
         IN  IF minutes > 0
             THEN <<"m s", minutes, seconds % 60>>
             ELSE <<"s", 0, seconds % 60>>

\* updateProgressUI with the time per item taken over the total.
updateProgressUI_PerTotal(current, total, elapsedTime) ==
    LET timePerItem == FloatDiv(elapsedTime, total)
        etrMs == FloatTimes(total - current, timePerItem)
    IN  [etrMs |-> etrMs, etrText |-> formatTime(etrMs)]

\* updateProgressUI(current, total, startTime), with elapsedTime standing for
\* Date.now() - startTime: the estimate and the text shown for it.
updateProgressUI(current, total, elapsedTime) ==
    LET timePerItem == FloatDiv(elapsedTime, current)
        etrMs == FloatTimes(total - current, timePerItem)
    IN  [etrMs |-> etrMs, etrText |-> formatTime(etrMs)]

\* The success test written as response.ok: every 2xx status.
IsSuccessStatus_ResponseOk(status) == status >= 200 /\ status <= 299

\* The success test of a batch response.
IsSuccessStatus(status) == status = 200 \/ status = 204

\* ------------------------------------------------------------------ state
VARIABLES
    isProcessing,      \* let isProcessing
    isCancelled,       \* let isCancelled
    btnDisabled,       \* invalidateBtn.disabled
    inputsDisabled,    \* disabled of the key, order id and file inputs
    lastAlert,         \* the alert() shown by the last user action, if any
    nRuns,             \* number of runs started so far
    run,               \* run[r]: the r-th activation of startInvalidationProcess
    cArray, cSize, cI, cChunks, cPc,  \* one call of chunkArray, step by step
    fnCall             \* one call of a message or progress function

uiVars == <<isProcessing, isCancelled, btnDisabled, inputsDisabled, lastAlert>>
chunkVars == <<cArray, cSize, cI, cChunks, cPc>>
vars == <<uiVars, nRuns, run, chunkVars, fnCall>>

Runs == 1..MaxRuns

\* A run that has not been started. The fields from sent on record what the
\* run has done and what happened to it; the code does not read them.
NoRun ==
    [pc |-> "idle", appKey |-> "", secretKey |-> "",
     allOrderIds |-> << >>, uToken |-> "",
     i |-> 0, totalSuccessCount |-> 0, totalFailCount |-> 0,
     processedIdCount |-> 0, status |-> 0,
     sent |-> << >>, results |-> << >>, tokenFault |-> "",
     exit |-> "", logged |-> {}, cancelAt |-> -1, cancelPc |-> "",
     discarded |-> FALSE, tokenRequests |-> 0, tokenGiven |-> "",
     failedLines |-> {}]

\* orderIdChunks of a run.
\* What is left of a run that had returned when the page was reset: its
\* locals are gone and startOver has emptied the log.
Gone == [NoRun EXCEPT !.pc = "gone"]

\* No function is being called on its own. The fields up to elapsedTime are
\* the arguments of a call, the fields from thrown on its result.
NoCall ==
    [fn |-> "off", done |-> FALSE, status |-> 0,
     tokenBody |-> [parses |-> FALSE, access_token |-> "",
                    error_description |-> ""],
     errBody |-> [kind |-> "unparseable", error |-> "", statusMessage |-> ""],
     current |-> 0, total |-> 0, elapsedTime |-> 0,
     thrown |-> FALSE, message |-> <<"", "">>,
     etrMs |-> NaN, etrText |-> <<"N/A", 0, 0>>]

Chunks(rec) == chunkArray(rec.allOrderIds, BATCH_SIZE)

\* The end of invalidateOrdersInBatches (the summary lines) followed by the
\* finally block of startInvalidationProcess.
Summary(rec, how) ==
    [rec EXCEPT !.pc = "done", !.exit = how,
                !.logged = @ \cup {"PROCESSING COMPLETE", "Summary", "Total time"}]

\* The loop leaving startInvalidationProcess on cancellation (return in place
\* of break): the summary lines are skipped.
LoopTop_ReturnOnCancel(rec, cancelled) ==
    IF rec.i < Len(Chunks(rec))
    THEN IF cancelled
         THEN [rec EXCEPT !.pc = "done", !.exit = "Cancelled",
                          !.logged = @ \cup {"Process cancelled by user."}]
         ELSE [rec EXCEPT !.pc = "awaitBatch",
                          !.sent = Append(@, [utoken |-> rec.uToken,
                                              orders |-> Chunks(rec)[rec.i + 1]])]
    ELSE Summary(rec, "Completed")

\* The loop with the cancellation tested before the loop test: a cancelled
\* run ends as cancelled even when no batch is left.
LoopTop_CancelFirst(rec, cancelled) ==
    IF cancelled
    THEN Summary([rec EXCEPT !.logged = @ \cup {"Process cancelled by user."}],
                 "Cancelled")
    ELSE IF rec.i < Len(Chunks(rec))
    THEN [rec EXCEPT !.pc = "awaitBatch",
                     !.sent = Append(@, [utoken |-> rec.uToken,
                                         orders |-> Chunks(rec)[rec.i + 1]])]
    ELSE Summary(rec, "Completed")

\* The top of the loop at index rec.i: the loop test, the cancellation test
\* and the dispatch of the batch (up to the await of fetch).
LoopTop(rec, cancelled) ==
    IF rec.i < Len(Chunks(rec))
    THEN IF cancelled
         THEN Summary([rec EXCEPT !.logged = @ \cup {"Process cancelled by user."}],
                      "Cancelled")
         ELSE [rec EXCEPT !.pc = "awaitBatch",
                          !.sent = Append(@, [utoken |-> rec.uToken,
                                              orders |-> Chunks(rec)[rec.i + 1]])]
    ELSE Summary(rec, "Completed")

\* The catch and finally blocks of startInvalidationProcess.
CriticalError(rec, message) ==
    [rec EXCEPT !.pc = "done", !.exit = "Aborted",
                !.logged = @ \cup {"CRITICAL ERROR", "Process stopped."}]

\* The lines after the try/catch with processedIdCount advanced by a full
\* batch (BATCH_SIZE) whatever the length of the batch.
AfterBatch_AddsBatchSize(rec) ==
    [rec EXCEPT !.processedIdCount = @ + BATCH_SIZE, !.pc = "pacing"]

\* The lines after the try/catch of one batch: processedIdCount, the progress
\* update, and the pacing timer.
AfterBatch(rec) ==
    [rec EXCEPT !.processedIdCount = @ + Len(Chunks(rec)[rec.i + 1]),
                !.pc = "pacing"]

\* The success branch counting a full batch (BATCH_SIZE) whatever the length
\* of the batch.
BatchSucceeded_CountsBatchSize(rec) ==
    AfterBatch([rec EXCEPT !.totalSuccessCount = @ + BATCH_SIZE])

\* The branch of a success status.
BatchSucceeded(rec) ==
    AfterBatch([rec EXCEPT
        !.totalSuccessCount = @ + Len(Chunks(rec)[rec.i + 1])])

\* The failure branches: the else branch when message is the one read from
\* the body, the catch branch when it is the error's.
BatchFailed(rec, message) ==
    AfterBatch([rec EXCEPT
        !.failedLines = @ \cup {rec.i + 1},
        !.totalFailCount = @ + Len(Chunks(rec)[rec.i + 1])])

\* fetch of a batch has resolved with a status.
OnBatchResponse(rec, status) ==
    IF IsSuccessStatus(status)
    THEN BatchSucceeded(rec)
    ELSE [rec EXCEPT !.status = status, !.pc = "awaitErrBody"]

\* The failure branch with the reading of the body outside the try: the
\* TypeError of a null body reaches the catch of startInvalidationProcess.
OnErrBody_NullEscapes(rec, body) ==
    IF body.kind = "null"
    THEN CriticalError(rec, <<"CRITICAL ERROR", "TypeError">>)
    ELSE BatchFailed([rec EXCEPT !.status = 0],
                     BatchErrorMessage(rec.status, body))

\* response.json().catch(() => ({})) has settled on a failed batch. Reading a
\* field of null throws a TypeError, which the catch of the batch takes.
OnErrBody(rec, body) ==
    BatchFailed([rec EXCEPT !.status = 0], BatchErrorMessage(rec.status, body))

\* The catch of a batch going on to the next batch at once (continue), the
\* lines after the try/catch and the pacing timer left out.
OnBatchNetworkError_SkipsPacing(rec) ==
    LoopTop([rec EXCEPT
                !.failedLines = @ \cup {rec.i + 1},
                !.totalFailCount = @ + Len(Chunks(rec)[rec.i + 1]),
                !.processedIdCount = @ + Len(Chunks(rec)[rec.i + 1]),
                !.i = @ + 1], FALSE)

\* The catch of a batch counting the failure without logging its line.
OnBatchNetworkError_NoLine(rec) ==
    AfterBatch([rec EXCEPT
        !.totalFailCount = @ + Len(Chunks(rec)[rec.i + 1])])

\* fetch of a batch has rejected.
OnBatchNetworkError(rec) ==
    BatchFailed(rec, <<"Network error", NetworkError>>)

\* ---------------------------------------------------------------- actions
Init ==
    /\ isProcessing = FALSE
    /\ isCancelled = FALSE
    /\ btnDisabled = FALSE
    /\ inputsDisabled = FALSE
    /\ lastAlert = ""
    /\ nRuns = 0
    /\ run = [r \in Runs |-> NoRun]
    /\ cArray = << >> /\ cSize = BATCH_SIZE /\ cI = 0 /\ cChunks = << >>
    /\ cPc = "off"
    /\ fnCall = NoCall

\* The finally block without the disabling of the button.
Finally_ButtonStaysEnabled(rec) ==
    IF rec.pc = "done"
    THEN isProcessing' = FALSE /\ UNCHANGED btnDisabled
    ELSE UNCHANGED <<isProcessing, btnDisabled>>

\* The finally block of startInvalidationProcess, run when rec has ended:
\* isProcessing = false, and the button reads Finished and is disabled.
Finally(rec) ==
    IF rec.pc = "done"
    THEN isProcessing' = FALSE /\ btnDisabled' = TRUE
    ELSE UNCHANGED <<isProcessing, btnDisabled>>

\* The content of the form (orderIdsInput, appKeyInput, secretKeyInput) that
\* startInvalidationProcess reads. The fields are editable whenever a click
\* can start a run (FormEditable below) and are read nowhere else, so they are
\* an input of the click and not a variable of the model. The texts are the
\* Order IDs one per line, with or without a blank last line.
Forms ==
    [text : {t \in SeqsUpTo(Lines, MaxLines) :
                \A k \in 1..Len(t) :
                    /\ t[k] \in {"", IdLine(k)}
                    /\ t[k] = "" => k = Len(t)},
     appKey : KeyTexts, secretKey : KeyTexts]

\* A cancellation request that also aborts the request of a batch in flight:
\* the run ends at once, without the answer.
ClickCancel_AbortsRequest ==
    /\ ~btnDisabled
    /\ isProcessing
    /\ isCancelled' = TRUE
    /\ lastAlert' = ""
    /\ run' = [r \in Runs |->
                 IF run[r].pc = "awaitBatch"
                 THEN Summary(run[r], "Cancelled")
                 ELSE run[r]]
    /\ UNCHANGED <<isProcessing, btnDisabled, inputsDisabled, nRuns, chunkVars, fnCall>>

\* handleInvalidationClick while isProcessing: the cancellation request.
ClickCancel ==
    /\ ~btnDisabled
    /\ isProcessing
    /\ isCancelled' = TRUE
    /\ lastAlert' = ""
    \* observation: where a run was (cancelPc) and the number of batches it
    \* had dispatched (cancelAt) when a cancellation was first requested
    \* during it
    /\ run' = [r \in Runs |->
                 IF run[r].pc \notin {"idle", "done", "gone"}
                    /\ run[r].cancelAt = -1
                 THEN [run[r] EXCEPT !.cancelAt = Len(run[r].sent),
                                     !.cancelPc = run[r].pc]
                 ELSE run[r]]
    /\ UNCHANGED <<isProcessing, btnDisabled, inputsDisabled, nRuns, chunkVars, fnCall>>

\* startInvalidationProcess with no Order ID: alert and return.
StartRejectedNoIds ==
    /\ ~btnDisabled
    /\ ~isProcessing
    /\ \E form \in Forms :
          /\ Len(ParseOrderIds(form.text)) = 0
    /\ lastAlert' = "Please paste or import at least one Order ID."
    /\ UNCHANGED <<isProcessing, isCancelled, btnDisabled, inputsDisabled,
                   nRuns, run, chunkVars, fnCall>>

\* startInvalidationProcess with a key missing: alert and return.
StartRejectedNoKeys ==
    /\ ~btnDisabled
    /\ ~isProcessing
    /\ \E form \in Forms :
          /\ Len(ParseOrderIds(form.text)) # 0
          /\ Trim(form.appKey) = "" \/ Trim(form.secretKey) = ""
    /\ lastAlert' = "Please provide both an App Key and a Secret Key."
    /\ UNCHANGED <<isProcessing, isCancelled, btnDisabled, inputsDisabled,
                   nRuns, run, chunkVars, fnCall>>

\* startInvalidationProcess without the test of the two keys.
StartRun_NoKeyTest ==
    /\ ~btnDisabled
    /\ ~isProcessing
    /\ nRuns < MaxRuns
    /\ \E form \in Forms :
          /\ Len(ParseOrderIds(form.text)) # 0
          /\ run' = [run EXCEPT ![nRuns + 1] =
                       [NoRun EXCEPT !.pc = "awaitToken",
                                     !.tokenRequests = 1,
                                     !.appKey = Trim(form.appKey),
                                     !.secretKey = Trim(form.secretKey),
                                     !.allOrderIds = ParseOrderIds(form.text)]]
    /\ isProcessing' = TRUE
    /\ isCancelled' = FALSE
    /\ inputsDisabled' = TRUE
    /\ lastAlert' = ""
    /\ nRuns' = nRuns + 1
    /\ UNCHANGED <<btnDisabled, chunkVars, fnCall>>

\* startInvalidationProcess up to its first await: setupUIForProcessing, then
\* generateUToken up to the fetch of the token.
StartRun ==
    /\ ~btnDisabled
    /\ ~isProcessing
    /\ nRuns < MaxRuns
    /\ \E form \in Forms :
          /\ Len(ParseOrderIds(form.text)) # 0
          /\ Trim(form.appKey) # "" /\ Trim(form.secretKey) # ""
          /\ run' = [run EXCEPT ![nRuns + 1] =
                       [NoRun EXCEPT !.pc = "awaitToken",
                                     !.tokenRequests = 1,
                                     !.appKey = Trim(form.appKey),
                                     !.secretKey = Trim(form.secretKey),
                                     !.allOrderIds = ParseOrderIds(form.text)]]
    /\ isProcessing' = TRUE
    /\ isCancelled' = FALSE
    /\ inputsDisabled' = TRUE
    /\ lastAlert' = ""
    /\ nRuns' = nRuns + 1
    /\ UNCHANGED <<btnDisabled, chunkVars, fnCall>>

\* The click handler of the primary button.
handleInvalidationClick ==
    \/ ClickCancel
    \/ StartRejectedNoIds
    \/ StartRejectedNoKeys
    \/ StartRun

\* The click handler of the Start Over button. It writes the two flags and
\* the interface; it does not touch the runs.
startOver ==
    /\ isProcessing' = FALSE
    /\ isCancelled' = FALSE
    /\ inputsDisabled' = FALSE
    /\ btnDisabled' = FALSE
    /\ lastAlert' = ""
    \* observation: the runs that were under way when the reset was made;
    \* nothing is kept of the runs that had returned
    /\ run' = [r \in Runs |->
                 IF run[r].pc = "done" THEN Gone
                 ELSE IF run[r].pc \notin {"idle", "gone"}
                 THEN [run[r] EXCEPT !.discarded = TRUE]
                 ELSE run[r]]
    /\ UNCHANGED <<nRuns, chunkVars, fnCall>>

\* What the credential exchange did, as the remote side sees it.
TokenFault(status, body) ==
    IF ~body.parses THEN "unparseable"
    ELSE IF status < 200 \/ status > 299 THEN "status"
    ELSE IF body.access_token = "" THEN "notoken"
    ELSE "none"

\* The fetch of the token rejects and generateUToken asks again (at most
\* MaxTokenRequests times).
TokenFetchFails_Retries(r) ==
    /\ run[r].pc = "awaitToken"
    /\ run[r].tokenRequests < MaxTokenRequests
    /\ run' = [run EXCEPT ![r] = [@ EXCEPT !.tokenRequests = @ + 1]]
    /\ UNCHANGED <<uiVars, nRuns, chunkVars, fnCall>>

\* The fetch of the token rejects: the catch and finally blocks take over.
TokenFetchFails(r) ==
    /\ run[r].pc = "awaitToken"
    /\ LET next == CriticalError([run[r] EXCEPT !.tokenFault = "transport"],
                                 <<"CRITICAL ERROR", NetworkError>>)
       IN  /\ run' = [run EXCEPT ![r] = next]
           /\ Finally(next)
    /\ UNCHANGED <<isCancelled, inputsDisabled, lastAlert, nRuns, chunkVars, fnCall>>

\* The fetch of the token resolves: the run awaits response.json().
TokenFetchResolves(r) ==
    /\ run[r].pc = "awaitToken"
    /\ \E status \in Statuses :
          run' = [run EXCEPT ![r] = [@ EXCEPT !.pc = "awaitTokenBody",
                                              !.status = status]]
    /\ UNCHANGED <<uiVars, nRuns, chunkVars, fnCall>>

\* response.json() of the token response settles: the rest of generateUToken
\* and, with a token, invalidateOrdersInBatches up to its first await.
TokenBodySettles(r) ==
    /\ run[r].pc = "awaitTokenBody"
    /\ \E body \in TokenBodies :
          LET got == generateUToken(run[r].status, body)
              rec == [run[r] EXCEPT !.status = 0,
                        !.tokenFault = TokenFault(run[r].status, body),
                        !.tokenGiven = body.access_token]
              next == IF got.thrown
                      THEN CriticalError(rec, got.message)
                      ELSE LoopTop([rec EXCEPT !.uToken = got.uToken],
                                   isCancelled)
          IN  /\ run' = [run EXCEPT ![r] = next]
              /\ Finally(next)
    /\ UNCHANGED <<isCancelled, inputsDisabled, lastAlert, nRuns, chunkVars, fnCall>>

\* Observation: the remote side's answer to the latest batch request of a run,
\* TRUE for a response of status 200 or 204, FALSE for any other status and
\* for a request that failed in transport.
Answered(rec, ok) == [rec EXCEPT !.results = Append(@, ok)]

\* The fetch of a batch rejects.
BatchFetchFails(r) ==
    /\ run[r].pc = "awaitBatch"
    /\ run' = [run EXCEPT ![r] = Answered(OnBatchNetworkError(run[r]), FALSE)]
    /\ UNCHANGED <<uiVars, nRuns, chunkVars, fnCall>>

\* The fetch of a batch resolves with a status.
BatchFetchResolves(r) ==
    /\ run[r].pc = "awaitBatch"
    /\ \E status \in Statuses :
          run' = [run EXCEPT ![r] = Answered(OnBatchResponse(run[r], status),
                                             status \in {200, 204})]
    /\ UNCHANGED <<uiVars, nRuns, chunkVars, fnCall>>

\* The body of a failed batch response settles.
ErrBodySettles(r) ==
    /\ run[r].pc = "awaitErrBody"
    /\ \E body \in ErrBodies :
          run' = [run EXCEPT ![r] = OnErrBody(run[r], body)]
    /\ UNCHANGED <<uiVars, nRuns, chunkVars, fnCall>>

\* The pacing timer fires: i++, then the top of the loop.
PacingDone(r) ==
    /\ run[r].pc = "pacing"
    /\ LET next == LoopTop([run[r] EXCEPT !.i = @ + 1], isCancelled)
       IN  /\ run' = [run EXCEPT ![r] = next]
           /\ Finally(next)
    /\ UNCHANGED <<isCancelled, inputsDisabled, lastAlert, nRuns, chunkVars, fnCall>>

RunStep(r) ==
    \/ TokenFetchFails(r)
    \/ TokenFetchResolves(r)
    \/ TokenBodySettles(r)
    \/ BatchFetchFails(r)
    \/ BatchFetchResolves(r)
    \/ ErrBodySettles(r)
    \/ PacingDone(r)

\* The form fields are enabled whenever a click can start a run.
FormEditable == (~btnDisabled /\ ~isProcessing) => ~inputsDisabled

Next ==
    \/ handleInvalidationClick
    \/ startOver
    \/ \E r \in Runs : RunStep(r)

Spec == Init /\ [][Next]_vars

\* The steps of the behaviours in which the user starts at most
\* LiveMaxRuns runs: the click that starts a run, and every step.
StartRunFair ==
    /\ nRuns < LiveMaxRuns
    /\ StartRun

NextFair ==
    \/ ClickCancel
    \/ StartRejectedNoIds
    \/ StartRejectedNoKeys
    \/ StartRunFair
    \/ startOver
    \/ \E r \in Runs : RunStep(r)

\* Every request of a run is answered or fails in the end, and its pacing
\* timer fires in the end: no run waits for ever at an await.
SpecFair ==
    Init /\ [][NextFair]_vars /\ \A r \in Runs : WF_vars(RunStep(r))

\* ------------------------------------------------- chunkArray, step by step
\* One call chunkArray(cArray, cSize), for every array and size within the
\* bounds, the sizes zero and negative included. cI and cChunks are the
\* function's i and chunks; cPc is "loop" until the function returns.
Ids == {"a", "b"}
ChunkSizes == (0 - ChunkMaxSize)..ChunkMaxSize

InitChunk ==
    /\ isProcessing = FALSE
    /\ isCancelled = FALSE
    /\ btnDisabled = FALSE
    /\ inputsDisabled = FALSE
    /\ lastAlert = ""
    /\ nRuns = 0
    /\ run = [r \in Runs |-> NoRun]
    /\ cArray \in SeqsUpTo(Ids, ChunkMaxLen)
    /\ cSize \in ChunkSizes
    /\ cI = 0
    /\ cChunks = << >>
    /\ cPc = "loop"
    /\ fnCall = NoCall

\* One iteration of the for loop: push the slice, i += size. The cap on the
\* number of chunks keeps the loop of a non-positive size finite here.
ChunkIterate ==
    /\ cPc = "loop"
    /\ ChunkCond(cArray, cI)
    /\ Len(cChunks) < ChunkMaxChunks
    /\ cChunks' = ChunkPush(cChunks, cArray, cI, cSize)
    /\ cI' = cI + cSize
    /\ UNCHANGED <<uiVars, nRuns, run, cArray, cSize, cPc, fnCall>>

\* The loop test fails: return chunks.
ChunkReturn ==
    /\ cPc = "loop"
    /\ ~ChunkCond(cArray, cI)
    /\ cPc' = "returned"
    /\ UNCHANGED <<uiVars, nRuns, run, cArray, cSize, cI, cChunks, fnCall>>

NextChunk ==
    \/ ChunkIterate
    \/ ChunkReturn

SpecChunk == InitChunk /\ [][NextChunk]_vars

\* ------------------------------------- message and progress functions alone
\* One call of generateUToken (from the parsed body on), of the message of a
\* failed batch, or of updateProgressUI, for every argument within the bounds.
Calls ==
    {[NoCall EXCEPT !.fn = "generateUToken", !.status = status,
                    !.tokenBody = body] :
        status \in Statuses, body \in TokenBodies}
    \cup {[NoCall EXCEPT !.fn = "BatchErrorMessage", !.status = status,
                         !.errBody = body] :
        status \in {st \in Statuses : ~IsSuccessStatus(st)},
        body \in ErrBodies}
    \cup UNION {{[NoCall EXCEPT !.fn = "updateProgressUI", !.current = current,
                                !.total = total, !.elapsedTime = elapsedTime] :
                   current \in 0..total, elapsedTime \in ElapsedTimes} :
                total \in 1..EtaMaxTotal}

InitCalls ==
    /\ isProcessing = FALSE
    /\ isCancelled = FALSE
    /\ btnDisabled = FALSE
    /\ inputsDisabled = FALSE
    /\ lastAlert = ""
    /\ nRuns = 0
    /\ run = [r \in Runs |-> NoRun]
    /\ cArray = << >> /\ cSize = BATCH_SIZE /\ cI = 0 /\ cChunks = << >>
    /\ cPc = "off"
    /\ fnCall \in Calls

CallGenerateUToken ==
    /\ fnCall.fn = "generateUToken" /\ ~fnCall.done
    /\ LET got == generateUToken(fnCall.status, fnCall.tokenBody)
       IN  fnCall' = [fnCall EXCEPT !.done = TRUE, !.thrown = got.thrown,
                                    !.message = got.message]
    /\ UNCHANGED <<uiVars, nRuns, run, chunkVars>>

CallBatchErrorMessage ==
    /\ fnCall.fn = "BatchErrorMessage" /\ ~fnCall.done
    /\ fnCall' = [fnCall EXCEPT !.done = TRUE,
                     !.message = BatchErrorMessage(fnCall.status,
                                                   fnCall.errBody)]
    /\ UNCHANGED <<uiVars, nRuns, run, chunkVars>>

CallUpdateProgressUI ==
    /\ fnCall.fn = "updateProgressUI" /\ ~fnCall.done
    /\ LET got == updateProgressUI(fnCall.current, fnCall.total,
                                   fnCall.elapsedTime)
       IN  fnCall' = [fnCall EXCEPT !.done = TRUE, !.etrMs = got.etrMs,
                                    !.etrText = got.etrText]
    /\ UNCHANGED <<uiVars, nRuns, run, chunkVars>>

NextCalls ==
    \/ CallGenerateUToken
    \/ CallBatchErrorMessage
    \/ CallUpdateProgressUI

SpecCalls == InitCalls /\ [][NextCalls]_vars

\* ------------------------------------------------------------- properties
RECURSIVE Concat(_)
Concat(chunks) ==
    IF chunks = << >> THEN << >> ELSE Head(chunks) \o Concat(Tail(chunks))

RECURSIVE SumLens(_)
SumLens(chunks) ==
    IF chunks = << >> THEN 0 ELSE Len(Head(chunks)) + SumLens(Tail(chunks))

CeilDiv(n, b) == (n + b - 1) \div b

\* C7: for a list of length n and a chunk size B > 0, chunkArray returns
\* ceil(n/B) batches whose lengths sum to n and whose concatenation is the
\* list; every batch but the last has B identifiers, and the last has n mod B
\* (B when n mod B = 0).
C7_Partition ==
    (cPc = "returned" /\ cSize > 0) =>
        LET n == Len(cArray)
            m == Len(cChunks)
        IN  /\ m = CeilDiv(n, cSize)
            /\ SumLens(cChunks) = n
            /\ Concat(cChunks) = cArray
            /\ \A k \in 1..(m - 1) : Len(cChunks[k]) = cSize
            /\ m > 0 =>
                 Len(cChunks[m]) = (IF n % cSize = 0 THEN cSize ELSE n % cSize)

\* A list of three identifiers has been split into batches of two and one.
C7_Witness ==
    /\ cPc = "returned"
    /\ cSize = 2
    /\ Len(cArray) = 3
    /\ Len(cChunks) = 2
    /\ Len(cChunks[2]) = 1

\* C8 as the spec states it: called with B <= 0 on a non-empty list, the
\* partitioner is rejected before partitioning begins: it neither loops nor
\* produces a batch.
C8_RejectedBeforePartitioning ==
    (cSize <= 0 /\ Len(cArray) > 0) => cChunks = << >>

\* C8 as the code has it: chunkArray does not check its size. Called with
\* B <= 0 on a non-empty list it never returns: i never reaches the length of
\* the list (it stays 0, or falls below 0), and each iteration pushes one
\* more batch.
C8_NeverReturns ==
    (cSize <= 0 /\ Len(cArray) > 0) =>
        /\ cPc = "loop"
        /\ cI = cSize * Len(cChunks)
        /\ ChunkCond(cArray, cI)

\* chunkArray of a non-positive size has pushed as many batches as the model
\* lets it.
C8_Witness ==
    /\ cSize <= 0
    /\ Len(cArray) > 0
    /\ Len(cChunks) = ChunkMaxChunks

\* The lengths of the first k batches of a run, summed.
FirstLens(rec, k) == SumLens(SubSeq(Chunks(rec), 1, k))

\* The lengths, summed, of the answered batches of a run whose answer was ok.
RECURSIVE AnsweredLens(_, _, _)
AnsweredLens(rec, ok, k) ==
    IF k = 0 THEN 0
    ELSE AnsweredLens(rec, ok, k - 1)
         + (IF rec.results[k] = ok THEN Len(Chunks(rec)[k]) ELSE 0)

\* The credential exchange of run r failed: in transport, by a body that is
\* not JSON, by a status outside 2xx, or by a response without a token.
CredentialFailed(r) ==
    run[r].tokenFault \in {"transport", "unparseable", "status", "notoken"}

\* Run r has ended with the loop having run to its end: the credential was
\* obtained and the loop was not left on the cancellation flag.
RanToEnd(r) ==
    /\ run[r].pc = "done"
    /\ run[r].tokenFault = "none"
    /\ "Process cancelled by user." \notin run[r].logged

\* C1 as the spec states it: when cancellation is requested between batch k
\* and batch k+1 (during the pacing delay after batch k), exactly k batches
\* are ever dispatched and the counts are those of the first k batches.
C1_CancelBetweenBatches ==
    \A r \in Runs :
        run[r].cancelPc = "pacing" =>
            /\ Len(run[r].sent) = run[r].cancelAt
            /\ run[r].processedIdCount = FirstLens(run[r], run[r].cancelAt)
            /\ run[r].totalSuccessCount + run[r].totalFailCount
                 = FirstLens(run[r], run[r].cancelAt)

\* C2 as the spec states it: under every sequence of user actions at most one
\* batch delete request is in flight.
C2_OneBatchInFlight ==
    Cardinality({r \in Runs : run[r].pc = "awaitBatch"}) <= 1

\* C3: when the credential exchange fails, the run has dispatched no batch
\* and has ended, aborted, in the step that met the failure.
C3_CredentialFailureAborts ==
    \A r \in Runs :
        CredentialFailed(r) =>
            /\ run[r].sent = << >>
            /\ run[r].processedIdCount = 0
            /\ run[r].pc = "done"
            /\ run[r].exit = "Aborted"

\* A run has ended on a token response that parsed, had a 2xx status and
\* carried no token.
C3_Witness ==
    \E r \in Runs : run[r].tokenFault = "notoken" /\ run[r].pc = "done"

\* C4: whatever the batches answer, no fault leaves the batch step (a run
\* that has dispatched a batch never reaches the critical-error handler), the
\* batches dispatched are the first batches of the partition, each once and
\* in order, and a run whose loop was not cancelled has dispatched them all.
C4_EveryBatchDispatched ==
    \A r \in Runs :
        /\ Len(run[r].sent) <= Len(Chunks(run[r]))
        /\ \A k \in 1..Len(run[r].sent) :
              run[r].sent[k].orders = Chunks(run[r])[k]
        /\ run[r].sent # << >> => "CRITICAL ERROR" \notin run[r].logged
        /\ RanToEnd(r) =>
              /\ Len(run[r].sent) = Len(Chunks(run[r]))
              /\ Len(run[r].results) = Len(Chunks(run[r]))

\* A run of two batches has run to its end with both batches failed.
C4_Witness ==
    \E r \in Runs :
        /\ RanToEnd(r)
        /\ run[r].results = <<FALSE, FALSE>>
        /\ Len(run[r].sent) = 2

\* C5: the step that records the outcome of a batch adds the whole length of
\* the batch to the success count, and nothing to the failure count, when the
\* call answered 200 or 204; on any other status and on a transport failure
\* it adds the whole length to the failure count and nothing to the success
\* count.
C5_BatchCountedWhole ==
    [][\A r \in Runs :
          (run[r].pc \in {"awaitBatch", "awaitErrBody"} /\ run'[r].pc # run[r].pc
             /\ run'[r].pc # "awaitErrBody") =>
              LET len == Len(Chunks(run[r])[run[r].i + 1])
                  ok == run'[r].results[Len(run'[r].results)]
              IN  /\ run'[r].pc = "pacing"
                  /\ run'[r].processedIdCount = run[r].processedIdCount + len
                  /\ run'[r].totalSuccessCount =
                       run[r].totalSuccessCount + (IF ok THEN len ELSE 0)
                  /\ run'[r].totalFailCount =
                       run[r].totalFailCount + (IF ok THEN 0 ELSE len)]_vars

\* A run has recorded a succeeded first batch and a failed second batch of
\* another length.
C5_Witness ==
    \E r \in Runs :
        /\ run[r].pc = "pacing"
        /\ run[r].results = <<TRUE, FALSE>>
        /\ Len(Chunks(run[r])[1]) # Len(Chunks(run[r])[2])
        /\ run[r].totalSuccessCount = Len(Chunks(run[r])[1])
        /\ run[r].totalFailCount = Len(Chunks(run[r])[2])

\* C6: a run that ends without cancellation reports, as succeeded, the summed
\* lengths of the batches that succeeded and, as failed, those of the batches
\* that failed; the two add up to the number of identifiers, all of which
\* have been processed.
C6_FinalSummary ==
    \A r \in Runs :
        RanToEnd(r) =>
            LET m == Len(Chunks(run[r]))
            IN  /\ Len(run[r].results) = m
                /\ run[r].totalSuccessCount = AnsweredLens(run[r], TRUE, m)
                /\ run[r].totalFailCount = AnsweredLens(run[r], FALSE, m)
                /\ run[r].totalSuccessCount + run[r].totalFailCount
                     = Len(run[r].allOrderIds)
                /\ run[r].processedIdCount = Len(run[r].allOrderIds)
                /\ "Summary" \in run[r].logged

\* A run of two batches of different lengths has ended with the first batch
\* failed and the second succeeded.
C6_Witness ==
    \E r \in Runs :
        /\ RanToEnd(r)
        /\ run[r].results = <<FALSE, TRUE>>
        /\ Len(Chunks(run[r])[1]) # Len(Chunks(run[r])[2])
        /\ run[r].totalFailCount = Len(Chunks(run[r])[1])
        /\ run[r].totalSuccessCount = Len(Chunks(run[r])[2])

\* C9 as the spec states it: the final summary (succeeded, failed, elapsed
\* time) is emitted in every terminal state.
C9_SummaryInEveryTerminalState ==
    \A r \in Runs :
        run[r].pc = "done" => {"Summary", "Total time"} \subseteq run[r].logged

\* C9 as the code has it: the summary is emitted when the run ends Completed
\* or Cancelled; a run aborted by a credential failure emits the critical
\* error and the process-stopped line, and no summary.
C9_SummaryUnlessAborted ==
    \A r \in Runs :
        run[r].pc = "done" =>
            IF CredentialFailed(r)
            THEN /\ {"CRITICAL ERROR", "Process stopped."} \subseteq run[r].logged
                 /\ run[r].logged \cap {"Summary", "Total time"} = {}
            ELSE {"Summary", "Total time"} \subseteq run[r].logged

\* One run has ended aborted and another cancelled after its first batch.
C9_Witness ==
    \E r1, r2 \in Runs :
        /\ run[r1].pc = "done" /\ CredentialFailed(r1)
        /\ run[r2].pc = "done" /\ run[r2].exit = "Cancelled"
        /\ Len(run[r2].sent) = 1

\* C10 as the spec states it: once startOver has been invoked during a run,
\* that run dispatches no further batch and changes no state.
C10_ResetStopsRun ==
    [][\A r \in Runs :
          run[r].discarded =>
              /\ run'[r].sent = run[r].sent
              /\ run'[r].pc = run[r].pc
              /\ run'[r].processedIdCount = run[r].processedIdCount]_vars

\* C11: a start with no Order ID left after trimming and dropping the blank
\* lines, or with an empty App Key or Secret Key, is rejected at once: the
\* step that shows the alert starts no run (no credential exchange, no batch)
\* and leaves isProcessing and isCancelled as they were; and every run that
\* does start has at least one Order ID, none of them blank, and both keys.
C11_RejectedStart ==
    [][/\ (lastAlert' # "" /\ lastAlert' # lastAlert) =>
             /\ run' = run
             /\ nRuns' = nRuns
             /\ isProcessing' = isProcessing /\ ~isProcessing'
             /\ isCancelled' = isCancelled
       /\ \A r \in Runs :
             (run[r].pc = "idle" /\ run'[r].pc # "idle") =>
                 /\ Len(run'[r].allOrderIds) > 0
                 /\ \A k \in 1..Len(run'[r].allOrderIds) :
                       /\ run'[r].allOrderIds[k] # ""
                       /\ Trim(run'[r].allOrderIds[k]) = run'[r].allOrderIds[k]
                 /\ run'[r].appKey # ""
                 /\ run'[r].secretKey # ""]_vars

\* A start has been rejected for a missing key, with no run started.
C11_Witness ==
    /\ lastAlert = "Please provide both an App Key and a Secret Key."
    /\ nRuns = 0
    /\ ~isProcessing

\* C12: a cancellation requested while batch k of a run is in flight does not
\* abort the request: the outcome of batch k is received and counted, and
\* batch k is the last batch the run dispatches: after the answer and one
\* pacing delay the loop stops.
C12_CancelInFlight ==
    \A r \in Runs :
        run[r].cancelPc = "awaitBatch" =>
            /\ Len(run[r].sent) = run[r].cancelAt
            /\ run[r].pc \in {"awaitBatch", "awaitErrBody", "pacing", "done"}
            /\ run[r].pc \in {"pacing", "done"} =>
                  /\ Len(run[r].results) = run[r].cancelAt
                  /\ run[r].processedIdCount
                       = FirstLens(run[r], run[r].cancelAt)
                  /\ run[r].totalSuccessCount
                       = AnsweredLens(run[r], TRUE, run[r].cancelAt)
                  /\ run[r].totalFailCount
                       = AnsweredLens(run[r], FALSE, run[r].cancelAt)
            /\ run[r].pc = "done" => run[r].exit \in {"Cancelled", "Completed"}

\* C13: the terminal states are final. A run that has ended (Aborted,
\* Cancelled or Completed) takes no further step: it dispatches no batch and
\* its counters and exit stay as they are; and as long as the page has not
\* been reset since a run ended, the Invalidate button starts no new run.
C13_TerminalIsFinal ==
    [][\A r \in Runs :
          run[r].pc = "done" =>
              /\ run'[r] = run[r] \/ run'[r] = Gone
              /\ run'[r] = Gone => (~btnDisabled' /\ ~isProcessing')
              /\ nRuns' = nRuns
              /\ \A q \in Runs : run[q].pc = "idle" => run'[q].pc = "idle"]_vars

\* A run has run to its end while a further run could still be started as far
\* as the bound on the runs goes.
C13_Witness ==
    /\ nRuns = 1
    /\ run[1].pc = "done" /\ run[1].exit = "Completed"
    /\ ~run[1].discarded
    /\ ~isProcessing

\* C14: every run makes exactly one credential exchange request and never
\* repeats it; a batch is dispatched only after that exchange has succeeded,
\* and every batch carries the token that exchange returned.
C14_OneCredentialExchange ==
    \A r \in Runs :
        run[r].pc \notin {"idle", "gone"} =>
            /\ run[r].tokenRequests = 1
            /\ run[r].pc \in {"awaitToken", "awaitTokenBody"} =>
                  run[r].sent = << >>
            /\ run[r].sent # << >> =>
                  /\ run[r].tokenFault = "none"
                  /\ run[r].tokenGiven # ""
                  /\ \A k \in 1..Len(run[r].sent) :
                        run[r].sent[k].utoken = run[r].tokenGiven

\* A run has dispatched both of its batches after its credential exchange.
C14_Witness ==
    \E r \in Runs :
        /\ Len(run[r].sent) = 2
        /\ run[r].tokenGiven = "tok"
        /\ run[r].sent[2].utoken = "tok"

\* C15: when the credential exchange answers with a non-success status, the
\* error that aborts the run is "Token generation failed" with the
\* error_description of the response when the server gave one, and with the
\* HTTP status text otherwise.
C15_ServerCauseInError ==
    (fnCall.fn = "generateUToken" /\ fnCall.done
        /\ ~ResponseOk(fnCall.status)) =>
        /\ fnCall.thrown
        /\ fnCall.message[1] = "Token generation failed"
        /\ fnCall.tokenBody.error_description # "" =>
              fnCall.message[2] = fnCall.tokenBody.error_description
        /\ fnCall.tokenBody.error_description = "" =>
              fnCall.message[2] = StatusText(fnCall.status)

C17_EstimatedTimeRemaining ==
    (fnCall.fn = "updateProgressUI" /\ fnCall.done) =>
        LET shown == 60 * fnCall.etrText[2] + fnCall.etrText[3]
            exact == (fnCall.total - fnCall.current) * fnCall.elapsedTime
            diff == shown * 1000 * fnCall.current - exact
        IN  /\ fnCall.current = 0 =>
                  /\ fnCall.etrMs.kind # "finite"
                  /\ fnCall.etrText = <<"N/A", 0, 0>>
            /\ fnCall.current > 0 =>
                  /\ fnCall.etrMs.kind = "finite"
                  /\ fnCall.etrMs.num * fnCall.current
                       = exact * fnCall.etrMs.den
                  /\ fnCall.etrText[1] # "N/A"
                  /\ fnCall.etrText[1] = "m s" <=> fnCall.etrText[2] > 0
                  /\ fnCall.etrText[3] \in 0..59
                  /\ diff <= 500 * fnCall.current
                  /\ 0 - diff <= 500 * fnCall.current
            /\ (fnCall.current > 0 /\ fnCall.current = fnCall.total) =>
                  /\ fnCall.etrMs.num = 0
                  /\ fnCall.etrText = <<"s", 0, 0>>

\* After 1 of 3 Order IDs in 61 seconds the estimate shown is 2m 2s.
C17_Witness ==
    /\ fnCall.fn = "updateProgressUI" /\ fnCall.done
    /\ fnCall.current = 1 /\ fnCall.total = 3 /\ fnCall.elapsedTime = 61000
    /\ fnCall.etrText = <<"m s", 2, 2>>

\* C18: the cancellation flag is set monotonically within a run: once it is
\* set while a run is under way, no step that leaves that run under way
\* clears it.
C18_FlagStaysSet ==
    [][\A r \in Runs :
          (/\ isCancelled
           /\ run[r].pc \notin {"idle", "done", "gone"}
           /\ run'[r].pc \notin {"idle", "done", "gone"}) => isCancelled']_vars

\* The distinct Order IDs of the batches of a run that were answered with a
\* failure.
DistinctFailedIds(rec) ==
    UNION {{rec.sent[k].orders[j] : j \in 1..Len(rec.sent[k].orders)} :
              k \in {n \in 1..Len(rec.results) : ~rec.results[n]}}

C20_StatusTextFallback ==
    (fnCall.fn = "BatchErrorMessage" /\ fnCall.done) =>
        /\ fnCall.message[1] = "FAILED"
        /\ fnCall.message[2] =
              IF fnCall.errBody.error # "" THEN fnCall.errBody.error
              ELSE IF fnCall.errBody.statusMessage # ""
              THEN fnCall.errBody.statusMessage
              ELSE StatusText(fnCall.status)

\* C20: for a body that is an object or is not JSON, the message is the error
\* field, else status.message, else the text "HTTP" followed by the status
\* code (a body that is not JSON has neither field). For the JSON body null
\* the reading of the fields throws, and the catch of the batch logs the
\* failure as a network error.
C20_MessageFallback ==
    (fnCall.fn = "BatchErrorMessage" /\ fnCall.done) =>
        /\ fnCall.errBody.kind = "null" =>
              fnCall.message = <<"Network error", "TypeError">>
        /\ fnCall.errBody.kind # "null" =>
              /\ fnCall.message[1] = "FAILED"
              /\ fnCall.errBody.error # "" =>
                    fnCall.message[2] = fnCall.errBody.error
              /\ (fnCall.errBody.error = ""
                     /\ fnCall.errBody.statusMessage # "") =>
                    fnCall.message[2] = fnCall.errBody.statusMessage
              /\ (fnCall.errBody.error = ""
                     /\ fnCall.errBody.statusMessage = "") =>
                    fnCall.message[2] =
                        (IF fnCall.status = 500 THEN "HTTP 500" ELSE "HTTP 201")

\* A response of status 500 whose body has neither field gives "HTTP 500".
C20_Witness ==
    /\ fnCall.fn = "BatchErrorMessage" /\ fnCall.done
    /\ fnCall.status = 500
    /\ fnCall.errBody = [kind |-> "object", error |-> "", statusMessage |-> ""]
    /\ fnCall.message = <<"FAILED", "HTTP 500">>

\* C21: whenever a run is under way (from its start until it has ended, at
\* every await), isProcessing is true, so that a click on the Invalidate
\* button requests a cancellation and starts no second run.
C21_ProcessingWhileActive ==
    \A r \in Runs :
        run[r].pc \notin {"idle", "done", "gone"} => isProcessing

\* The number of batches of a run whose outcome the loop has recorded: every
\* batch answered, but for the one whose failure body is still being read.
Recorded(rec) ==
    IF rec.pc = "awaitErrBody" THEN Len(rec.results) - 1 ELSE Len(rec.results)

\* C22: in every state of a run, processed = succeeded + failed <= total,
\* and processed is the sum of the lengths of the batches whose outcome has
\* been recorded; each of the three counters never decreases, and changes
\* only in the step that records the outcome of a batch.
C22_Counters ==
    [][\A r \in Runs :
          run'[r].pc # "gone" =>
              /\ run'[r].processedIdCount
                   = run'[r].totalSuccessCount + run'[r].totalFailCount
              /\ run'[r].processedIdCount <= Len(run'[r].allOrderIds)
              /\ run'[r].processedIdCount = FirstLens(run'[r], Recorded(run'[r]))
              /\ run'[r].totalSuccessCount
                   = AnsweredLens(run'[r], TRUE, Recorded(run'[r]))
              /\ run'[r].processedIdCount >= run[r].processedIdCount
              /\ run'[r].totalSuccessCount >= run[r].totalSuccessCount
              /\ run'[r].totalFailCount >= run[r].totalFailCount
              /\ (\/ run'[r].processedIdCount # run[r].processedIdCount
                  \/ run'[r].totalSuccessCount # run[r].totalSuccessCount
                  \/ run'[r].totalFailCount # run[r].totalFailCount) =>
                    /\ run[r].pc \in {"awaitBatch", "awaitErrBody"}
                    /\ run'[r].pc = "pacing"
                    /\ Recorded(run'[r]) = Recorded(run[r]) + 1]_vars

\* A run has recorded a full batch that succeeded and a shorter one that
\* failed.
C22_Witness ==
    \E r \in Runs :
        /\ run[r].pc = "pacing"
        /\ run[r].results = <<TRUE, FALSE>>
        /\ run[r].totalSuccessCount = 2
        /\ run[r].totalFailCount = 1
        /\ run[r].processedIdCount = 3

\* C23: when every request is answered or fails in the end and the pacing
\* timer fires in the end, every run that has started ends, and isProcessing
\* becomes false, cancelled or not; and as long as the request of a batch has
\* not been answered, the run dispatches no further batch and does not end.
C23_RunsEnd ==
    /\ \A r \in Runs :
          (run[r].pc \notin {"idle", "done", "gone"})
              ~> (run[r].pc \in {"done", "gone"})
    /\ \A r \in Runs :
          (run[r].pc \notin {"idle", "done", "gone"}) ~> ~isProcessing
    /\ [][\A r \in Runs :
            (run[r].pc = "awaitBatch"
                /\ Len(run'[r].results) = Len(run[r].results)) =>
                /\ run'[r].pc = "awaitBatch"
                /\ run'[r].sent = run[r].sent]_vars

\* A run whose cancellation was requested has ended, and isProcessing is
\* false again.
C23_Witness ==
    \E r \in Runs :
        /\ run[r].pc = "done"
        /\ run[r].exit = "Cancelled"
        /\ run[r].cancelAt # -1
        /\ ~isProcessing
        /\ isCancelled

\* C24: a cancellation requested while the credential exchange of a run is
\* pending does not interrupt the exchange; when the exchange then succeeds,
\* the flag is seen before the first batch: the run ends as Cancelled with no
\* batch dispatched and a summary of 0 succeeded, 0 failed.
C24_CancelDuringExchange ==
    \A r \in Runs :
        run[r].cancelPc \in {"awaitToken", "awaitTokenBody"} =>
            /\ run[r].sent = << >>
            /\ run[r].pc \in {"awaitToken", "awaitTokenBody", "done"}
            /\ (run[r].pc = "done" /\ run[r].tokenFault = "none") =>
                  /\ run[r].exit = "Cancelled"
                  /\ run[r].uToken = run[r].tokenGiven
                  /\ {"Process cancelled by user.", "Summary"}
                       \subseteq run[r].logged
                  /\ run[r].totalSuccessCount = 0
                  /\ run[r].totalFailCount = 0

\* C25: the cancellation flag is tested only when a batch is left to
\* dispatch. A cancellation first requested during the request of the last
\* batch, or during the pacing delay after it, has no effect: the run ends
\* as Completed with every batch dispatched and without the notice of
\* cancellation; and a run that ends as Cancelled has left a batch undispatched.
C25_CancelAfterLastBatch ==
    \A r \in Runs :
        LET batches == CeilDiv(Len(run[r].allOrderIds), BATCH_SIZE)
        IN  /\ (/\ run[r].cancelPc \in {"awaitBatch", "awaitErrBody", "pacing"}
                /\ run[r].cancelAt = batches) =>
                  /\ Len(run[r].sent) = batches
                  /\ run[r].pc \in {"awaitBatch", "awaitErrBody", "pacing", "done"}
                  /\ run[r].pc = "done" =>
                        /\ run[r].exit = "Completed"
                        /\ "Process cancelled by user." \notin run[r].logged
                        /\ "Summary" \in run[r].logged
            /\ run[r].exit = "Cancelled" =>
                  /\ Len(run[r].sent) < batches
                  /\ "Process cancelled by user." \in run[r].logged

\* A run of two batches has ended as Completed although a cancellation was
\* requested during the pacing delay after its last batch; the flag is still
\* set.
C25_Witness ==
    \E r \in Runs :
        /\ run[r].pc = "done"
        /\ run[r].exit = "Completed"
        /\ run[r].cancelPc = "pacing"
        /\ run[r].cancelAt = 2
        /\ Len(run[r].sent) = 2
        /\ isCancelled

====
